---- MODULE Spec2Model ----
(***************************************************************************)
(* Manim rendering service (cloud-render/app.py, "variant A", and          *)
(* cloud-render/render-com/app.py, "variant B").                           *)
(*                                                                         *)
(* An HTTP request occupies one slot.  POST /render draws a request        *)
(* identifier, parses the body, validates the script, writes the scratch   *)
(* file, runs the rendering tool as a subprocess, looks the artifact up,   *)
(* uploads it (variant A) and answers.  The file system (temporary         *)
(* directory, output directories) is shared by all requests.  A handler    *)
(* takes a step of its own wherever it waits: for the rendering tool, for  *)
(* the object store, for the metrics sink; other requests are served in    *)
(* between.                                                                *)
(***************************************************************************)
EXTENDS Integers, Sequences, FiniteSets, TLC

(***************************************************************************)
(* Bounds of the model.                                                    *)
(***************************************************************************)
\* number of HTTP requests (slots) the service receives
MaxRequests == 2
\* number of text fragments a script of the validation specification holds
MaxFrags == 3

(***************************************************************************)
(* Configuration and literals of the program.                              *)
(***************************************************************************)
DEFAULT_FORMAT == "mp4"

\* JSON values as Python has them after parsing: str, list (of str), dict (its
\* keys), int, float (in tenths), bool, None
JsonString(text) == [type |-> "string", value |-> text]
JsonArray(items) == [type |-> "array", items |-> items]
JsonObject(keys) == [type |-> "object", keys |-> keys]
JsonInt(number) == [type |-> "int", number |-> number]
JsonFloat(tenths) == [type |-> "float", tenths |-> tenths]
JsonBool(bit) == [type |-> "bool", bit |-> bit]
JsonNull == [type |-> "null"]

DEFAULT_QUALITY == JsonString("medium_quality")

MAX_RENDER_TIME == "3600"

dangerous_imports ==
    << "subprocess", "os.system", "eval", "exec", "open",
       "__import__", "compile", "globals", "locals" >>

\* datetime.utcnow().isoformat(): only the presence of the field is modelled
utcnow == "utcnow"

\* captured standard error of the rendering tool, and str(e) of the faults of
\* the environment: opaque texts
STDERR == "<stderr>"
OSERROR == "<oserror>"
UPLOADERROR == "<upload error>"
\* open() of the scratch file, f.write() of a script that is a string, mkdir
OPENERROR == "<open error>"
WRITEERROR == "<write error>"
MKDIRERROR == "<mkdir error>"
\* the UnicodeDecodeError of subprocess.run(text=True)
DECODEERROR == "<decode error>"
\* video_file.stat(), the read of the artifact, script_file.unlink()
STATERROR == "<stat error>"
SENDERROR == "<send_file error>"
READERROR == "<read error>"
UNLINKERROR == "<unlink error>"
\* str(OSError) of the search of a directory whose name is too long
NameError(request_id) ==
    << "[Errno 36] File name too long: ", << "OUTPUT_DIR", request_id >> >>

\* type(v).__name__
PyType(v) ==
    CASE v.type = "string" -> "str"
      [] v.type = "array" -> "list"
      [] v.type = "object" -> "dict"
      [] v.type = "int" -> "int"
      [] v.type = "float" -> "float"
      [] v.type = "bool" -> "bool"
      [] v.type = "null" -> "NoneType"

\* str(TypeError) of a dict lookup with a list or a dict as the key
TypeError(quality) == "unhashable type: '" \o PyType(quality) \o "'"
\* str(TypeError) of len() of a number or a bool
LenError(script_content) ==
    "object of type '" \o PyType(script_content) \o "' has no len()"
\* str(TypeError) of f.write() of a list or a dict
WriteTypeError(script_content) ==
    "write() argument must be str, not " \o PyType(script_content)

(***************************************************************************)
(* Python's  p in s  on strings: p occurs in s as a contiguous substring.  *)
(***************************************************************************)
Contains(s, p) ==
    \E i \in 1..(Len(s) - Len(p) + 1) : SubSeq(s, i, i + Len(p) - 1) = p

\* Python's  p in content : a substring of a str, an element of a list, a
\* key of a dict
In(p, content) ==
    CASE content.type = "string" -> Contains(content.value, p)
      [] content.type = "array" ->
            \E i \in DOMAIN content.items : content.items[i] = p
      [] content.type = "object" -> p \in content.keys

Min(S) == CHOOSE m \in S : \A n \in S : m <= n

(***************************************************************************)
(* Faulty variants of validate_script: the Scene class check with  and     *)
(* for  or ; the Scene class check moved before the import check.          *)
(***************************************************************************)
validate_script_and(script_content) ==
    LET hits == { i \in DOMAIN dangerous_imports :
                    In(dangerous_imports[i], script_content) }
    IN  IF hits # {}
        THEN [ok |-> FALSE,
              msg |-> "Dangerous function/import detected: "
                        \o dangerous_imports[Min(hits)]]
        ELSE IF ~In("from manim import", script_content)
                /\ ~In("import manim", script_content)
        THEN [ok |-> FALSE, msg |-> "Script must import manim"]
        ELSE IF ~In("class", script_content)
                /\ ~In("Scene", script_content)
        THEN [ok |-> FALSE, msg |-> "Script must contain a Scene class"]
        ELSE [ok |-> TRUE, msg |-> "Script validation passed"]

validate_script_swapped(script_content) ==
    LET hits == { i \in DOMAIN dangerous_imports :
                    In(dangerous_imports[i], script_content) }
    IN  IF hits # {}
        THEN [ok |-> FALSE,
              msg |-> "Dangerous function/import detected: "
                        \o dangerous_imports[Min(hits)]]
        ELSE IF ~In("class", script_content)
                \/ ~In("Scene", script_content)
        THEN [ok |-> FALSE, msg |-> "Script must contain a Scene class"]
        ELSE IF ~In("from manim import", script_content)
                /\ ~In("import manim", script_content)
        THEN [ok |-> FALSE, msg |-> "Script must import manim"]
        ELSE [ok |-> TRUE, msg |-> "Script validation passed"]

(***************************************************************************)
(* ManimRenderer.validate_script: the denylist scan in list order, then    *)
(* the manim import check, then the Scene class check.  The script is the  *)
(* value render_video passes on: a str, or a list or a dict, on which  in  *)
(* tests the elements or the keys.                                         *)
(***************************************************************************)
validate_script(script_content) ==
    LET hits == { i \in DOMAIN dangerous_imports :
                    In(dangerous_imports[i], script_content) }
    IN  IF hits # {}
        THEN [ok |-> FALSE,
              msg |-> "Dangerous function/import detected: "
                        \o dangerous_imports[Min(hits)]]
        ELSE IF ~In("from manim import", script_content)
                /\ ~In("import manim", script_content)
        THEN [ok |-> FALSE, msg |-> "Script must import manim"]
        ELSE IF ~In("class", script_content)
                \/ ~In("Scene", script_content)
        THEN [ok |-> FALSE, msg |-> "Script must contain a Scene class"]
        ELSE [ok |-> TRUE, msg |-> "Script validation passed"]

(***************************************************************************)
(* Script texts.  A script of the validation specification is the          *)
(* concatenation of at most MaxFrags fragments.                            *)
(***************************************************************************)
Fragments ==
    { "subprocess", "os.system", "eval", "exec", "open", "__import__",
      "compile", "globals", "locals",
      "from manim import *\n", "import manim\n",
      "class A(Scene):\n", "class ", "Scene", " pass\n" }

RECURSIVE Concat(_)
Concat(fs) == IF fs = <<>> THEN "" ELSE Head(fs) \o Concat(Tail(fs))

FragSeqs == UNION { [1..n -> Fragments] : n \in 0..MaxFrags }

Scripts == { Concat(fs) : fs \in FragSeqs }

(***************************************************************************)
(* Scripts and request bodies the service receives.                        *)
(***************************************************************************)
ValidScript == "from manim import *\nclass A(Scene):\n pass\n"
EvalScript == ValidScript \o "x = eval('1')\n"
NoImportScript == "class A(Scene):\n pass\n"

\* scripts that are a JSON array or object: one with a denylist entry as an
\* element, and two whose elements or keys are what validate_script looks for
EvalList == JsonArray(<< "from manim import", "class", "Scene", "eval" >>)
SceneList == JsonArray(<< "from manim import", "class", "Scene" >>)
SceneDict == JsonObject({ "import manim", "class", "Scene" })

\* the scripts render_script is called with
RenderScripts ==
    { JsonString(ValidScript), JsonString(EvalScript),
      JsonString(NoImportScript), EvalList, SceneList, SceneDict }

\* validate_script on the scripts the service receives
Validation == [s \in RenderScripts |-> validate_script(s)]

\* if not is_valid: raise ValueError(...)
Validated(script_content) == Validation[script_content].ok

\* file extensions the rendering tool can deposit
Formats == { "mp4", "gif" }

\* qualities that are no string: a list and a dict (unhashable), an empty
\* list (falsy) and a number
ListQuality == JsonArray(<< "high_quality" >>)
DictQuality == JsonObject({ "high_quality" })

\* the parsed JSON object of a request body, as a Python dict
Dicts ==
    { << >>, [format |-> "gif"] }
    \cup { [script |-> s] :
             s \in { JsonString(""), JsonArray(<< >>), JsonInt(0), JsonNull,
                     JsonInt(5), JsonFloat(15), JsonBool(TRUE) } }
    \cup { [script |-> s] : s \in RenderScripts }
    \cup { [script |-> JsonString(ValidScript), format |-> "gif"],
           [script |-> JsonString(ValidScript), quality |-> ListQuality],
           [script |-> JsonString(EvalScript), quality |-> ListQuality],
           [script |-> JsonString(EvalScript), quality |-> DictQuality],
           [script |-> JsonString(ValidScript), quality |-> JsonArray(<< >>)],
           [script |-> JsonString(ValidScript), quality |-> JsonInt(5)],
           [script |-> JsonString(ValidScript),
            return_base64 |-> JsonBool(TRUE)] }

\* what request.get_json() does: raises (a body that is empty or no JSON),
\* returns None, returns a non-empty JSON array, returns a dict
JsonOutcomes ==
    { [kind |-> "raises"], [kind |-> "none"], [kind |-> "list"] }
    \cup { [kind |-> "dict", value |-> d] : d \in Dicts }

Slots == 1..MaxRequests
ReqIds == 1..MaxRequests

\* dict.get(key, default)
Get(d, key, default) == IF key \in DOMAIN d THEN d[key] ELSE default

(***************************************************************************)
(* State.                                                                  *)
(***************************************************************************)
VARIABLES
    variant,      \* "A" (cloud-render/app.py) or "B" (render-com/app.py)
    cloudClients, \* storage_client and monitoring_client are not None
    uuidCalls,    \* number of request identifiers drawn so far
    request,      \* per slot: the HTTP request received
    pc,           \* per slot: position of the handler
    rid,          \* per slot: request identifier of the render call, 0 if none
    rendered,     \* per slot: number of render_script invocations
    tempFiles,    \* identifiers whose script_<id>.py exists in TEMP_DIR
    outDirs,      \* identifiers whose directory exists in OUTPUT_DIR
    outFiles,     \* per identifier: extensions of the files in its directory
    launched,     \* per slot: number of subprocess launches
    exitKind,     \* per slot: how the subprocess ended, "none" if it has not
    searched,     \* per slot: the artifact lookup (rglob) was attempted
    uploaded,     \* per slot: the upload was attempted
    bucket,       \* identifiers whose artifact is in object storage
    metrics,      \* per slot: success indicators received by the metrics sink
    emitted,      \* per slot: success indicators sent to the metrics sink
    pending,      \* per slot: the outcome render_script is about to return
    swallowed,    \* per slot: the finally clause swallowed a failure of unlink
    result,       \* per slot: how render_script ended
    response,     \* per slot: the HTTP response
    vScript,      \* validation specification: the script under test
    vResult       \* validation specification: what validate_script returned

vars == << variant, cloudClients, uuidCalls, request, pc, rid, rendered,
           tempFiles, outDirs, outFiles, launched, exitKind, searched,
           uploaded, bucket, metrics, emitted, pending, swallowed, result,
           response, vScript, vResult >>

fsVars == << tempFiles, outDirs, outFiles >>
valVars == << vScript, vResult >>
cfgVars == << variant, cloudClients >>

NoRequest == [route |-> "none"]
NoResult == [kind |-> "none"]
NoResponse == [status |-> 0]
NotValidated == [ok |-> FALSE, msg |-> "<not run>"]

Init ==
    /\ variant \in { "A", "B" }
    /\ cloudClients \in (IF variant = "A" THEN BOOLEAN ELSE { FALSE })
    /\ uuidCalls = 0
    /\ request = [r \in Slots |-> NoRequest]
    /\ pc = [r \in Slots |-> "idle"]
    /\ rid = [r \in Slots |-> 0]
    /\ rendered = [r \in Slots |-> 0]
    /\ tempFiles = {}
    /\ outDirs = {}
    /\ outFiles = [i \in ReqIds |-> {}]
    /\ launched = [r \in Slots |-> 0]
    /\ exitKind = [r \in Slots |-> "none"]
    /\ searched = [r \in Slots |-> FALSE]
    /\ uploaded = [r \in Slots |-> FALSE]
    /\ bucket = {}
    /\ metrics = [r \in Slots |-> << >>]
    /\ emitted = [r \in Slots |-> << >>]
    /\ pending = [r \in Slots |-> NoResult]
    /\ swallowed = [r \in Slots |-> FALSE]
    /\ result = [r \in Slots |-> NoResult]
    /\ response = [r \in Slots |-> NoResponse]
    /\ vScript = ""
    /\ vResult = NotValidated

(***************************************************************************)
(* Results of render_script and responses of the handlers.                 *)
(***************************************************************************)
\* faulty variant: the failure result without the request identifier
ErrorResultNoId(e, request_id) ==
    [success |-> FALSE, error |-> "Rendering failed: " \o e,
     timestamp |-> utcnow]

\* except Exception as e  of render_script
ErrorResult(e, request_id) ==
    [success |-> FALSE, error |-> "Rendering failed: " \o e,
     request_id |-> request_id, timestamp |-> utcnow]

\* faulty variant: the timeout falls into the generic except clause
TimeoutResultGeneric(request_id) ==
    [success |-> FALSE,
     error |-> "Rendering failed: Command timed out after "
                 \o MAX_RENDER_TIME \o " seconds",
     request_id |-> request_id, timestamp |-> utcnow]

\* except subprocess.TimeoutExpired  of render_script
TimeoutResult(request_id) ==
    [success |-> FALSE,
     error |-> "Rendering timeout after " \o MAX_RENDER_TIME \o " seconds",
     request_id |-> request_id, timestamp |-> utcnow]

\* Python's truth value of a JSON value:  not v  is its negation
Truthy(v) ==
    CASE v.type = "string" -> v.value # ""
      [] v.type = "array" -> v.items # << >>
      [] v.type = "object" -> v.keys # {}
      [] v.type = "int" -> v.number # 0
      [] v.type = "float" -> v.tenths # 0
      [] v.type = "bool" -> v.bit
      [] v.type = "null" -> FALSE

\* the fields variant B adds to the result when return_base64 is true: the
\* encoded bytes of the artifact (named by its path) and their size
InlineData(call, result_) ==
    IF Truthy(call.return_base64)
    THEN [f \in DOMAIN result_ \cup { "video_base64", "video_size_mb" } |->
            IF f \in DOMAIN result_ THEN result_[f]
            ELSE << call.request_id, call.format >>]
    ELSE result_

\* faulty variant: the storage key is reported whether or not a locator exists
SuccessResultBlobAlways(v, call, gcs_url) ==
    IF v = "A"
    THEN [success |-> TRUE, request_id |-> call.request_id,
          video_file |-> << call.request_id, call.format >>,
          gcs_url |-> gcs_url, blob_name |-> call.request_id,
          quality |-> call.quality, format |-> call.format,
          timestamp |-> utcnow]
    ELSE InlineData(call,
             [success |-> TRUE, request_id |-> call.request_id,
              video_file_path |-> << call.request_id, call.format >>,
              quality |-> call.quality, format |-> call.format,
              timestamp |-> utcnow])

\* the result dict of a successful render; gcs_url and blob_name are the
\* identifier of the stored blob, 0 for None
SuccessResult(v, call, gcs_url) ==
    IF v = "A"
    THEN [success |-> TRUE, request_id |-> call.request_id,
          video_file |-> << call.request_id, call.format >>,
          gcs_url |-> gcs_url, blob_name |-> gcs_url,
          quality |-> call.quality, format |-> call.format,
          timestamp |-> utcnow]
    ELSE InlineData(call,
             [success |-> TRUE, request_id |-> call.request_id,
              video_file_path |-> << call.request_id, call.format >>,
              quality |-> call.quality, format |-> call.format,
              timestamp |-> utcnow])

Returned(res) == [kind |-> "returned", value |-> res]
Raised(e) == [kind |-> "raised", error |-> e]

\* "Cleanup temporary files" of the success path: the file is gone, or
\* script_file.unlink raised and it is still there
CleanupOnSuccess(files, request_id, unlinkOk) ==
    IF unlinkOk THEN files \ { request_id } ELSE files

\* faulty variant: no finally clause
UnlinkKeeps(files, request_id, unlinkOk) == files

\* finally: try: script_file.unlink(missing_ok=True) except: pass.  The file
\* is gone, or unlink raised and it is still there
Unlink(files, request_id, unlinkOk) ==
    IF unlinkOk THEN files \ { request_id } ELSE files

\* the two 400 answers of render_video
BadRequest(message) == [status |-> 400, body |-> [error |-> message]]

\* except Exception as e  of render_video
InternalError(e) ==
    [status |-> 500,
     body |-> [success |-> FALSE,
               error |-> "Internal server error: " \o e,
               timestamp |-> utcnow]]

\* faulty variant: every render result is answered with 200
RenderResponseAlways200(outcome) ==
    IF outcome.kind = "raised"
    THEN InternalError(outcome.error)
    ELSE [status |-> 200, body |-> outcome.value]

\* the tail of render_video: 200 or 500 with the result as the payload, and
\* the handler boundary for a fault raised by render_script
RenderResponse(outcome) ==
    IF outcome.kind = "raised"
    THEN InternalError(outcome.error)
    ELSE [status |-> IF outcome.value.success THEN 200 ELSE 500,
          body |-> outcome.value]

\* _report_metrics: nothing without a monitoring client; a failure of the
\* sink is swallowed
ReportMetrics(sent, clients, sinkOk, success) ==
    IF clients /\ sinkOk THEN Append(sent, success) ELSE sent

\* faulty variant: a failure path reports a success
EmitMetricsTrue(sent, clients, success) ==
    IF clients THEN Append(sent, TRUE) ELSE sent

\* _report_metrics up to monitoring_client.create_time_series: one call of
\* the sink when a monitoring client is configured, none otherwise
EmitMetrics(sent, clients, success) ==
    IF clients THEN Append(sent, success) ELSE sent

(***************************************************************************)
(* render_video up to the call of render_script: what get_json returned    *)
(* decides between an immediate answer and a render call.                  *)
(***************************************************************************)
JSONERROR == "<bad request>"
ATTRERROR == "'list' object has no attribute 'get'"

\* len(script_content) of the logging call: a str, a list and a dict have one
HasLen(script_content) ==
    script_content.type \in { "string", "array", "object" }

\* quality = quality or config.DEFAULT_QUALITY
RenderQuality(quality) == IF Truthy(quality) THEN quality ELSE DEFAULT_QUALITY

\* format = format or config.DEFAULT_FORMAT
RenderFormat(format) == IF format = "" THEN DEFAULT_FORMAT ELSE format

\* the arguments of the render_script call for the body data, as they are
\* once render_script has put the default for a falsy quality or format
RenderCall(data, request_id) ==
    [script_content |-> data.script,
     request_id |-> request_id,
     quality |-> RenderQuality(Get(data, "quality", DEFAULT_QUALITY)),
     format |-> RenderFormat(Get(data, "format", DEFAULT_FORMAT)),
     return_base64 |-> Get(data, "return_base64", JsonBool(FALSE))]

ParseRequest(json) ==
    IF json.kind = "raises"
    THEN [respond |-> TRUE, response |-> InternalError(JSONERROR)]
    ELSE IF json.kind = "none"
    THEN [respond |-> TRUE, response |-> BadRequest("No JSON data provided")]
    ELSE IF json.kind = "list"
    THEN [respond |-> TRUE, response |-> InternalError(ATTRERROR)]
    ELSE IF DOMAIN json.value = {}
    THEN [respond |-> TRUE, response |-> BadRequest("No JSON data provided")]
    ELSE IF ~Truthy(Get(json.value, "script", JsonNull))
    THEN [respond |-> TRUE,
          response |-> BadRequest("No script content provided")]
    ELSE IF ~HasLen(json.value.script)
    THEN [respond |-> TRUE,
          response |-> InternalError(LenError(json.value.script))]
    ELSE [respond |-> FALSE]

\* quality_mapping.get(quality, 'm') of variant A: the key must be hashable,
\* which a list and a dict are not
Hashable(quality) == quality.type \notin { "array", "object" }

\* the arguments of the render call of slot r
CallOf(r) == RenderCall(request[r].json.value, rid[r])

\* the format of the render call of slot r
FormatOf(r) == CallOf(r).format

\* the script of the render call of slot r
ScriptOf(r) == request[r].json.value.script

\* with open(script_file, 'w') as f: the file exists from open() on
WriteScript(files, request_id) == files \cup { request_id }

\* render_output_dir.mkdir(exist_ok=True)
MakeDir(dirs, request_id) == dirs \cup { request_id }

\* the steps of "Create temporary script file" and "Prepare output
\* directory": all succeed, or open(), f.write() or mkdir() raises
WriteSteps == { "ok", "open", "write", "mkdir" }

\* f.write(script_content) of a list or a dict raises; the other steps fail
\* when the file system makes them fail
WriteStepsOf(script_content) ==
    IF script_content.type = "string" THEN WriteSteps ELSE { "open", "write" }

\* str(e) of the step that raised
WriteStepError(script_content, step) ==
    CASE step = "open" -> OPENERROR
      [] step = "write" ->
            IF script_content.type = "string" THEN WRITEERROR
            ELSE WriteTypeError(script_content)
      [] step = "mkdir" -> MKDIRERROR

\* the statements between the search (or the upload) and the return that can
\* raise: stat, the read of the artifact (variant B with return_base64), the
\* unlink of "Cleanup temporary files"
TailFaults(v, call) ==
    { "stat", "unlink" }
    \cup (IF v = "B" /\ Truthy(call.return_base64) THEN { "read" } ELSE {})

\* render_script from the artifact (and its locator) to the outcome: the
\* success result with the scratch file deleted, or the fault of the
\* statement that raised, in  except Exception , with the file still there
AfterSearch(v, call, gcs_url, raises, files) ==
    IF raises = "stat"
    THEN [outcome |-> Returned(ErrorResult(STATERROR, call.request_id)),
          files |-> files]
    ELSE IF raises = "read"
    THEN [outcome |-> Returned(ErrorResult(READERROR, call.request_id)),
          files |-> files]
    ELSE IF raises = "unlink"
    THEN [outcome |-> Returned(ErrorResult(UNLINKERROR, call.request_id)),
          files |-> CleanupOnSuccess(files, call.request_id, FALSE)]
    ELSE [outcome |-> Returned(SuccessResult(v, call, gcs_url)),
          files |-> CleanupOnSuccess(files, call.request_id, TRUE)]

(***************************************************************************)
(* Faulty variants of the upload step: the upload failure leaves           *)
(* render_script as an exception; the upload failure is swallowed and the  *)
(* render reported as a success without a locator.                         *)
(***************************************************************************)
AfterUploadRaises(call, uploadOk, raises, files) ==
    IF uploadOk
    THEN AfterSearch("A", call, call.request_id, raises, files)
    ELSE [outcome |-> Raised(UPLOADERROR), files |-> files]

AfterUploadSwallows(call, uploadOk, raises, files) ==
    IF uploadOk
    THEN AfterSearch("A", call, call.request_id, raises, files)
    ELSE AfterSearch("A", call, 0, raises, files)

\* render_script of variant A from the return of _upload_to_gcs: the locator
\* goes into the result, or the re-raised upload error into  except Exception
AfterUpload(call, uploadOk, raises, files) ==
    IF uploadOk
    THEN AfterSearch("A", call, call.request_id, raises, files)
    ELSE [outcome |-> Returned(ErrorResult(UPLOADERROR, call.request_id)),
          files |-> files]

\* faulty variant: the search starts at OUTPUT_DIR, not at the directory of
\* the call
FoundFilesAnywhere(files, request_id) == UNION { files[i] : i \in ReqIds }

\* render_output_dir.rglob(...): the files under the directory of the call
FoundFiles(files, request_id) == files[request_id]

\* how the rendering tool ends: with exit code 0 or another, or killed at
\* the timeout.  (That subprocess.run then fails to decode its output is one
\* of Raises.)
ExitKinds == { "exit0", "nonzero", "timeout" }

\* what raises after the rendering tool has ended: nothing, the decoding of
\* its output (text=True), or a statement of the tail of the success path
Raises == { "none", "decode", "stat", "read", "unlink" }

\* the faults the call can meet, by how far it gets
RaisesOf(v, clients, call, found, exit) ==
    IF exit = "timeout"
    THEN { "none" }
    ELSE IF exit = "nonzero" \/ call.format \notin found \/ (v = "A" /\ clients)
    THEN { "none", "decode" }
    ELSE { "none", "decode" } \cup TailFaults(v, call)

(***************************************************************************)
(* render_script from the end of subprocess.run to the upload or, when     *)
(* there is none, to the outcome: exit is how the subprocess ended, found  *)
(* the extensions in the output directory of the call, raises the          *)
(* statement that raises, files the temporary directory.                   *)
(***************************************************************************)
AfterRun(v, clients, call, found, exit, raises, files) ==
    IF exit = "timeout"
    THEN [outcome |-> Returned(TimeoutResult(call.request_id)),
          searched |-> FALSE, upload |-> FALSE, files |-> files]
    ELSE IF raises = "decode"
    THEN [outcome |-> Returned(ErrorResult(DECODEERROR, call.request_id)),
          searched |-> FALSE, upload |-> FALSE, files |-> files]
    ELSE IF exit = "nonzero"
    THEN [outcome |-> Returned(ErrorResult(
                          "Manim rendering failed: " \o STDERR,
                          call.request_id)),
          searched |-> FALSE, upload |-> FALSE, files |-> files]
    ELSE IF call.format \notin found
    THEN [outcome |-> Returned(ErrorResult(
                          "No video file found after rendering",
                          call.request_id)),
          searched |-> TRUE, upload |-> FALSE, files |-> files]
    ELSE IF v = "A" /\ clients
    THEN [outcome |-> [kind |-> "none"], searched |-> TRUE, upload |-> TRUE,
          files |-> files]
    ELSE [outcome |-> AfterSearch(v, call, 0, raises, files).outcome,
          searched |-> TRUE, upload |-> FALSE,
          files |-> AfterSearch(v, call, 0, raises, files).files]

Succeeded(outcome) == outcome.kind = "returned" /\ outcome.value.success

(***************************************************************************)
(* Actions.                                                                *)
(***************************************************************************)
\* slots are taken in the order the requests arrive
Arrives(r) == pc[r] = "idle" /\ \A q \in Slots : q < r => pc[q] # "idle"

\* the end of a render call: render_script leaves through its finally clause,
\* which deletes the scratch file or swallows the failure to (unlinkOk).
\* The unlink of a file that is not there does nothing, or it raises as well
\* (the temporary directory is no directory): missing_ok hides the missing
\* file only.  Then render_video answers.
Finish(r, request_id, outcome, files, unlinkOk) ==
    /\ result' = [result EXCEPT ![r] = outcome]
    /\ tempFiles' = Unlink(files, request_id, unlinkOk)
    /\ swallowed' = [swallowed EXCEPT ![r] = ~unlinkOk]
    /\ response' = [response EXCEPT ![r] = RenderResponse(outcome)]
    /\ pc' = [pc EXCEPT ![r] = "done"]

\* the outcome of the call is known and _report_metrics is called: with a
\* monitoring client the call waits in the metrics sink, and the finally
\* clause is not reached in this step; without one it runs to its end.
\* files is the temporary directory as the call left it.
Report(r, request_id, outcome, files, unlinkOk) ==
    /\ emitted' = [emitted EXCEPT ![r] =
                      IF outcome.kind = "returned"
                      THEN EmitMetrics(@, variant = "A" /\ cloudClients,
                                       Succeeded(outcome))
                      ELSE @]
    /\ IF variant = "A" /\ cloudClients /\ outcome.kind = "returned"
       THEN /\ unlinkOk
            /\ pending' = [pending EXCEPT ![r] = outcome]
            /\ tempFiles' = files
            /\ pc' = [pc EXCEPT ![r] = "reporting"]
            /\ UNCHANGED << result, metrics, response, swallowed >>
       ELSE /\ Finish(r, request_id, outcome, files, unlinkOk)
            /\ UNCHANGED << metrics, pending >>

\* the body of a request that  request.get_json()  has not returned yet
NoJson == [kind |-> "waiting"]

\* faulty variant: no request identifier is drawn when the request arrives
RenderVideoLazyId(r) ==
    /\ Arrives(r)
    /\ request' = [request EXCEPT ![r] = [route |-> "render", json |-> NoJson]]
    /\ pc' = [pc EXCEPT ![r] = "parsing"]
    /\ UNCHANGED << cfgVars, uuidCalls, rid, rendered, fsVars, launched,
                    exitKind, searched, uploaded, bucket, metrics, emitted,
                    pending, swallowed, result, response, valVars >>

\* POST /render arrives: the handler draws the request identifier and waits
\* for the body in  request.get_json()
RenderVideo(r) ==
    /\ Arrives(r)
    /\ uuidCalls' = uuidCalls + 1
    /\ rid' = [rid EXCEPT ![r] = uuidCalls + 1]
    /\ request' = [request EXCEPT ![r] = [route |-> "render", json |-> NoJson]]
    /\ pc' = [pc EXCEPT ![r] = "parsing"]
    /\ UNCHANGED << cfgVars, rendered, fsVars, launched, exitKind, searched,
                    uploaded, bucket, metrics, emitted, pending, swallowed,
                    result, response, valVars >>

\* request.get_json() returns or raises: the body checks, and render_script
\* up to the validation of the script.  In variant A the quality is looked
\* up in quality_mapping before the try block: a quality that is a list or
\* a dict makes render_script raise, and render_video answers at its handler
\* boundary, the finally clause not being reached.  A call the validation
\* ends has written no scratch file, and leaves through the finally clause.
GetJson(r, json, unlinkOk) ==
    /\ pc[r] = "parsing"
    /\ request' = [request EXCEPT ![r] = [route |-> "render", json |-> json]]
    /\ LET p == ParseRequest(json)
           request_id == rid[r]
       IN  IF p.respond
           THEN /\ unlinkOk
                /\ response' = [response EXCEPT ![r] = p.response]
                /\ pc' = [pc EXCEPT ![r] = "done"]
                /\ UNCHANGED << rendered, result, metrics, emitted, pending,
                                tempFiles, swallowed >>
           ELSE LET call == RenderCall(json.value, request_id)
                IN  /\ rendered' = [rendered EXCEPT ![r] = @ + 1]
                    /\ IF variant = "A" /\ ~Hashable(call.quality)
                       THEN /\ unlinkOk
                            /\ result' = [result EXCEPT ![r] =
                                             Raised(TypeError(call.quality))]
                            /\ response' = [response EXCEPT ![r] =
                                  RenderResponse(
                                      Raised(TypeError(call.quality)))]
                            /\ pc' = [pc EXCEPT ![r] = "done"]
                            /\ UNCHANGED << metrics, emitted, pending,
                                            tempFiles, swallowed >>
                       ELSE IF Validated(call.script_content)
                       THEN /\ unlinkOk
                            /\ pc' = [pc EXCEPT ![r] = "validated"]
                            /\ UNCHANGED << result, metrics, emitted, pending,
                                            tempFiles, response, swallowed >>
                       ELSE Report(r, request_id,
                                   Returned(ErrorResult(
                                       "Script validation failed: "
                                         \o Validation[call.script_content].msg,
                                       request_id)),
                                   tempFiles, unlinkOk)
    /\ UNCHANGED << cfgVars, uuidCalls, rid, outDirs, outFiles, launched,
                    exitKind, searched, uploaded, bucket, valVars >>

\* render_script: the scratch file and the output directory.  When open()
\* raises there is no file; when f.write() raises (a list or a dict, a script
\* utf-8 cannot encode, a full disk) or mkdir() raises, the file exists and
\* no directory was made;  except Exception  has the outcome.
Materialize(r, step, unlinkOk) ==
    /\ pc[r] = "validated"
    /\ step \in WriteStepsOf(ScriptOf(r))
    /\ IF step = "ok"
       THEN /\ unlinkOk
            /\ tempFiles' = WriteScript(tempFiles, rid[r])
            /\ outDirs' = MakeDir(outDirs, rid[r])
            /\ pc' = [pc EXCEPT ![r] = "ready"]
            /\ UNCHANGED << result, metrics, emitted, pending, response,
                            swallowed >>
       ELSE /\ Report(r, rid[r],
                      Returned(ErrorResult(
                          WriteStepError(ScriptOf(r), step), rid[r])),
                      IF step = "open" THEN tempFiles
                      ELSE WriteScript(tempFiles, rid[r]),
                      unlinkOk)
            /\ UNCHANGED outDirs
    /\ UNCHANGED << cfgVars, uuidCalls, request, rid, rendered, outFiles,
                    launched, exitKind, searched, uploaded, bucket, valVars >>

\* render_script: subprocess.run starts the rendering tool, or fails to
Launch(r, started, unlinkOk) ==
    /\ pc[r] = "ready"
    /\ IF started
       THEN /\ unlinkOk
            /\ launched' = [launched EXCEPT ![r] = @ + 1]
            /\ pc' = [pc EXCEPT ![r] = "running"]
            /\ UNCHANGED << result, metrics, emitted, pending, tempFiles,
                            response, swallowed >>
       ELSE /\ Report(r, rid[r], Returned(ErrorResult(OSERROR, rid[r])),
                      tempFiles, unlinkOk)
            /\ UNCHANGED launched
    /\ UNCHANGED << cfgVars, uuidCalls, request, rid, rendered, outDirs,
                    outFiles, exitKind, searched, uploaded, bucket, valVars >>

\* the rendering tool deposits a file in the media directory it was given: a
\* partial movie file (mp4) or the file of the format it was asked for
ToolWrite(r, ext) ==
    /\ pc[r] = "running"
    /\ ext \in { "mp4", FormatOf(r) }
    /\ ext \notin outFiles[rid[r]]
    /\ outFiles' = [outFiles EXCEPT ![rid[r]] = @ \cup { ext }]
    /\ UNCHANGED << cfgVars, uuidCalls, request, pc, rid, rendered, tempFiles,
                    outDirs, launched, exitKind, searched, uploaded, bucket,
                    metrics, emitted, pending, swallowed, result, response,
                    valVars >>

\* subprocess.run returns, times out or fails to decode the output of the
\* tool; render_script checks the exit code and looks the artifact up, then
\* starts the upload (variant A with a storage client) or runs to its outcome
ToolExit(r, exit, raises, unlinkOk) ==
    /\ pc[r] = "running"
    /\ raises \in RaisesOf(variant, cloudClients, CallOf(r),
                           FoundFiles(outFiles, rid[r]), exit)
    /\ exitKind' = [exitKind EXCEPT ![r] = exit]
    /\ LET a == AfterRun(variant, cloudClients, CallOf(r),
                         FoundFiles(outFiles, rid[r]), exit, raises,
                         tempFiles)
       IN  /\ searched' = [searched EXCEPT ![r] = a.searched]
           /\ uploaded' = [uploaded EXCEPT ![r] = a.upload]
           /\ IF a.upload
              THEN /\ unlinkOk
                   /\ pc' = [pc EXCEPT ![r] = "uploading"]
                   /\ UNCHANGED << result, metrics, emitted, pending,
                                   tempFiles, response, swallowed >>
              ELSE Report(r, rid[r], a.outcome, a.files, unlinkOk)
    /\ UNCHANGED << cfgVars, uuidCalls, request, rid, rendered, outDirs,
                    outFiles, launched, bucket, valVars >>

\* blob.upload_from_filename returns or raises: the object store has the
\* artifact or not; after a stored artifact the tail of the success path
\* runs, and the outcome of the call is known
UploadReturns(r, uploadOk, raises, unlinkOk) ==
    /\ pc[r] = "uploading"
    /\ raises \in (IF uploadOk
                   THEN { "none" } \cup TailFaults(variant, CallOf(r))
                   ELSE { "none" })
    /\ bucket' = IF uploadOk THEN bucket \cup { rid[r] } ELSE bucket
    /\ LET a == AfterUpload(CallOf(r), uploadOk, raises, tempFiles)
       IN  Report(r, rid[r], a.outcome, a.files, unlinkOk)
    /\ UNCHANGED << cfgVars, uuidCalls, request, rid, rendered, outDirs,
                    outFiles, launched, exitKind, searched, uploaded,
                    valVars >>

\* monitoring_client.create_time_series returns or raises (the failure is
\* swallowed), and render_script returns
SinkReturns(r, sinkOk, unlinkOk) ==
    /\ pc[r] = "reporting"
    /\ metrics' = [metrics EXCEPT ![r] =
                      ReportMetrics(@, variant = "A" /\ cloudClients, sinkOk,
                                    Succeeded(pending[r]))]
    /\ Finish(r, rid[r], pending[r], tempFiles, unlinkOk)
    /\ UNCHANGED << cfgVars, uuidCalls, request, rid, rendered, outDirs,
                    outFiles, launched, exitKind, searched, uploaded, bucket,
                    emitted, pending, valVars >>

(***************************************************************************)
(* The other routes.                                                       *)
(***************************************************************************)
\* an identifier of a request path that is too long to name a directory
LongId == MaxRequests + 1

\* the identifier  .  or  .. : OUTPUT_DIR/<id> is OUTPUT_DIR or its parent
DotId == MaxRequests + 2

\* the identifiers GET /status/<id> and GET /download/<id> are called with
PathIds == ReqIds \cup { LongId, DotId }

\* identifiers no request has drawn yet are alike: the next one to be drawn
\* stands for them
AskedIds == { id \in PathIds : id \in ReqIds => id <= uuidCalls + 1 }

\* the output directories at or under OUTPUT_DIR/<id>
SearchedDirs(request_id) ==
    IF request_id = DotId THEN ReqIds
    ELSE IF request_id = LongId THEN {}
    ELSE { request_id }

\* rglob('*.mp4') of OUTPUT_DIR/<id>: the directories it finds an mp4 in
Mp4Dirs(files, request_id) ==
    { i \in SearchedDirs(request_id) : "mp4" \in files[i] }

\* video_files[0]: the directory of the first file found, 0 for none
FirstFound(files, request_id) ==
    IF Mp4Dirs(files, request_id) = {} THEN { 0 } ELSE Mp4Dirs(files, request_id)

\* @app.errorhandler(404)
NotFoundResponse == [status |-> 404, body |-> [error |-> "Endpoint not found"]]

\* get_render_status: a stub in variant A; in B a search for an mp4 file,
\* which raises on a name the file system refuses, and the stat of the file
\* found, which raises when the file cannot be reached (statOk)
StatusResponse(v, request_id, found, statOk) ==
    IF v = "A"
    THEN [status |-> 200,
          body |-> [request_id |-> request_id, status |-> "completed",
                    message |-> "Status endpoint not fully implemented yet"]]
    ELSE IF request_id = LongId
    THEN [status |-> 500,
          body |-> [request_id |-> request_id, status |-> "error",
                    error |-> NameError(request_id)]]
    ELSE IF found # 0 /\ ~statOk
    THEN [status |-> 500,
          body |-> [request_id |-> request_id, status |-> "error",
                    error |-> STATERROR]]
    ELSE IF found # 0
    THEN [status |-> 200,
          body |-> [request_id |-> request_id, status |-> "completed",
                    file_size |-> << found, "mp4" >>,
                    download_url |-> request_id]]
    ELSE [status |-> 200,
          body |-> [request_id |-> request_id, status |-> "not_found",
                    message |-> "Video file not found"]]

\* download_video (variant B; variant A has no such route): send_file raises
\* when the file found cannot be opened (sendOk)
DownloadResponse(v, request_id, found, sendOk) ==
    IF v = "A"
    THEN NotFoundResponse
    ELSE IF request_id = LongId
    THEN [status |-> 500,
          body |-> [error |-> << "Download failed: ", NameError(request_id) >>]]
    ELSE IF found = 0
    THEN [status |-> 404, body |-> [error |-> "Video file not found"]]
    ELSE IF ~sendOk
    THEN [status |-> 500, body |-> [error |-> "Download failed: " \o SENDERROR]]
    ELSE [status |-> 200, body |-> [file |-> << found, "mp4" >>]]

Answer(r, req, resp) ==
    /\ Arrives(r)
    /\ request' = [request EXCEPT ![r] = req]
    /\ response' = [response EXCEPT ![r] = resp]
    /\ pc' = [pc EXCEPT ![r] = "done"]
    /\ UNCHANGED << cfgVars, uuidCalls, rid, rendered, fsVars, launched,
                    exitKind, searched, uploaded, bucket, metrics, emitted,
                    pending, swallowed, result, valVars >>

\* the handler of variant B has found a file to stat or to send
Reads(v, request_id, found) == v = "B" /\ request_id # LongId /\ found # 0

\* GET /status/<id>
GetRenderStatus(r, id, statOk) ==
    \E found \in FirstFound(outFiles, id) :
        /\ statOk \/ Reads(variant, id, found)
        /\ Answer(r, [route |-> "status", id |-> id],
                  StatusResponse(variant, id, found, statOk))

\* GET /download/<id>
DownloadVideo(r, id, sendOk) ==
    \E found \in FirstFound(outFiles, id) :
        /\ sendOk \/ Reads(variant, id, found)
        /\ Answer(r, [route |-> "download", id |-> id],
                  DownloadResponse(variant, id, found, sendOk))

\* a request no route matches
NotFound(r) == Answer(r, [route |-> "unmatched"], NotFoundResponse)

\* a request is taken up by the first idle slot only: the guard comes before
\* the choice of its input
Next ==
    \/ \E r \in Slots : RenderVideo(r)
    \/ \E r \in Slots :
          pc[r] = "parsing" /\ \E json \in JsonOutcomes, unlinkOk \in BOOLEAN :
                                  GetJson(r, json, unlinkOk)
    \/ \E r \in Slots, step \in WriteSteps, unlinkOk \in BOOLEAN :
          Materialize(r, step, unlinkOk)
    \/ \E r \in Slots, started \in BOOLEAN, unlinkOk \in BOOLEAN :
          Launch(r, started, unlinkOk)
    \/ \E r \in Slots, ext \in Formats : ToolWrite(r, ext)
    \/ \E r \in Slots, exit \in ExitKinds, raises \in Raises,
          unlinkOk \in BOOLEAN :
          ToolExit(r, exit, raises, unlinkOk)
    \/ \E r \in Slots, uploadOk \in BOOLEAN, raises \in Raises,
          unlinkOk \in BOOLEAN :
          UploadReturns(r, uploadOk, raises, unlinkOk)
    \/ \E r \in Slots, sinkOk \in BOOLEAN, unlinkOk \in BOOLEAN :
          SinkReturns(r, sinkOk, unlinkOk)
    \/ \E r \in Slots :
          Arrives(r) /\ \E id \in AskedIds, statOk \in BOOLEAN :
                           GetRenderStatus(r, id, statOk)
    \/ \E r \in Slots :
          Arrives(r) /\ \E id \in AskedIds, sendOk \in BOOLEAN :
                           DownloadVideo(r, id, sendOk)
    \/ \E r \in Slots : NotFound(r)

Spec == Init /\ [][Next]_vars

(***************************************************************************)
(* The validation specification: validate_script applied to every script   *)
(* of at most MaxFrags fragments.                                          *)
(***************************************************************************)
InitValidate ==
    /\ variant = "A"
    /\ cloudClients = FALSE
    /\ uuidCalls = 0
    /\ request = [r \in Slots |-> NoRequest]
    /\ pc = [r \in Slots |-> "idle"]
    /\ rid = [r \in Slots |-> 0]
    /\ rendered = [r \in Slots |-> 0]
    /\ tempFiles = {}
    /\ outDirs = {}
    /\ outFiles = [i \in ReqIds |-> {}]
    /\ launched = [r \in Slots |-> 0]
    /\ exitKind = [r \in Slots |-> "none"]
    /\ searched = [r \in Slots |-> FALSE]
    /\ uploaded = [r \in Slots |-> FALSE]
    /\ bucket = {}
    /\ metrics = [r \in Slots |-> << >>]
    /\ emitted = [r \in Slots |-> << >>]
    /\ pending = [r \in Slots |-> NoResult]
    /\ swallowed = [r \in Slots |-> FALSE]
    /\ result = [r \in Slots |-> NoResult]
    /\ response = [r \in Slots |-> NoResponse]
    /\ vScript \in Scripts
    /\ vResult = NotValidated

Validate ==
    /\ vResult = NotValidated
    /\ vResult' = validate_script(JsonString(vScript))
    /\ UNCHANGED << cfgVars, uuidCalls, request, pc, rid, rendered, fsVars,
                    launched, exitKind, searched, uploaded, bucket, metrics,
                    emitted, pending, swallowed, result, response, vScript >>

NextValidate == Validate

SpecValidate == InitValidate /\ [][NextValidate]_vars

(***************************************************************************)
(* Vocabulary of the properties.                                           *)
(***************************************************************************)
FailureFields == { "success", "error", "request_id", "timestamp" }

HasDangerous(s) ==
    \E i \in DOMAIN dangerous_imports : Contains(s, dangerous_imports[i])

ImportsManim(s) == Contains(s, "from manim import") \/ Contains(s, "import manim")

\* a denylist entry is in the script, and the verdict of validate_script,
\* tabulated for the scripts render_script is called with
Dangerous ==
    [s \in RenderScripts |->
        \E i \in DOMAIN dangerous_imports : In(dangerous_imports[i], s)]
Accepts == [s \in RenderScripts |-> validate_script(s).ok]

IsRender(r) == request[r].route = "render"

\* the body is missing (get_json raises or gives None) or empty, or its
\* script  is missing or empty
LacksScript(json) ==
    \/ json.kind \in { "raises", "none" }
    \/ json.kind = "dict" /\ ~Truthy(Get(json.value, "script", JsonNull))

\* the body carries a non-empty script: a str, or a list or a dict
HasScript(json) ==
    /\ json.kind = "dict"
    /\ Truthy(Get(json.value, "script", JsonNull))
    /\ HasLen(json.value.script)

Returns(r) == result[r].kind = "returned"

\* render_script of slot r returned the flattened failure shape
FlatFailure(r) ==
    /\ Returns(r)
    /\ DOMAIN result[r].value = FailureFields
    /\ result[r].value.success = FALSE
    /\ result[r].value.request_id = rid[r]

\* validate_script was called and refused the script
ValidationFault(r) ==
    /\ rendered[r] > 0
    /\ variant = "A" => Hashable(CallOf(r).quality)
    /\ ~Accepts[ScriptOf(r)]
NonzeroFault(r) == exitKind[r] = "nonzero"
TimeoutFault(r) == exitKind[r] = "timeout"
NoArtifactFault(r) ==
    exitKind[r] = "exit0" /\ FormatOf(r) \notin outFiles[rid[r]]
UploadFault(r) == uploaded[r] /\ rid[r] \notin bucket

Validated_ == vResult # NotValidated

(***************************************************************************)
(* C1 as stated: once render_script has ended for a request identifier,    *)
(* on whatever path, the scratch file of that identifier does not exist.   *)
(***************************************************************************)
C1_Original ==
    \A r \in Slots : result[r].kind # "none" => rid[r] \notin tempFiles

(***************************************************************************)
(* C1 amended: once render_script has ended for a request identifier, on   *)
(* whatever path, the scratch file of that identifier does not exist,      *)
(* unless the unlink of the finally clause raised: that failure is         *)
(* swallowed, and the file of a call that failed after it had launched the *)
(* tool is then still there.                                               *)
(***************************************************************************)
C1_ScratchFileDeleted ==
    \A r \in Slots :
        result[r].kind # "none" =>
            /\ rid[r] \in tempFiles => swallowed[r]
            /\ (swallowed[r] /\ launched[r] > 0 /\ ~Succeeded(result[r]))
                  => rid[r] \in tempFiles

\* a call that wrote its scratch file, ran the tool and failed, and whose
\* finally clause deleted the file
C1_Witness ==
    \E r \in Slots :
        /\ NonzeroFault(r)
        /\ Returns(r)
        /\ rid[r] \in outDirs
        /\ ~swallowed[r]
        /\ rid[r] \notin tempFiles

(***************************************************************************)
(* C2: a POST /render whose body is missing or empty, or whose script is   *)
(* missing or empty, is answered 400, and between receipt and response no  *)
(* scratch file and no output directory is written and no subprocess is    *)
(* launched.                                                               *)
(***************************************************************************)
C2_BadRequestNoSideEffect ==
    \A r \in Slots :
        (IsRender(r) /\ LacksScript(request[r].json)) =>
            /\ response[r].status = 400
            /\ rendered[r] = 0
            /\ launched[r] = 0
            /\ rid[r] \notin tempFiles
            /\ rid[r] \notin outDirs

(***************************************************************************)
(* C3: a render call whose script contains a denylist substring returns a  *)
(* failed result without ever launching the subprocess; the subprocess is  *)
(* launched only in calls whose script validate_script accepts.            *)
(***************************************************************************)
C3_DenylistNeverLaunches ==
    \A r \in Slots :
        rendered[r] > 0 =>
            /\ Dangerous[ScriptOf(r)] =>
                  /\ launched[r] = 0
                  /\ pc[r] = "done" =>
                        /\ Returns(r)
                        /\ result[r].value.success = FALSE
            /\ launched[r] > 0 => Accepts[ScriptOf(r)]

(***************************************************************************)
(* C4 as stated: validate_script rejects a script exactly when it contains *)
(* a denylist substring, or imports manim in neither form, or contains     *)
(* neither  class  nor  Scene .                                            *)
(***************************************************************************)
C4_Original ==
    Validated_ =>
        (~vResult.ok <=>
            \/ HasDangerous(vScript)
            \/ ~ImportsManim(vScript)
            \/ ~Contains(vScript, "class") /\ ~Contains(vScript, "Scene"))

(***************************************************************************)
(* C4 amended: validate_script rejects a script exactly when it contains a *)
(* denylist substring, or imports manim in neither form, or lacks at least *)
(* one of the substrings  class  and  Scene .                              *)
(***************************************************************************)
C4_RejectsExactly ==
    Validated_ =>
        (~vResult.ok <=>
            \/ HasDangerous(vScript)
            \/ ~ImportsManim(vScript)
            \/ ~Contains(vScript, "class")
            \/ ~Contains(vScript, "Scene"))

\* a script that imports manim and holds  class  but not  Scene  was rejected
C4_Witness ==
    /\ Validated_
    /\ ~vResult.ok
    /\ ~HasDangerous(vScript)
    /\ ImportsManim(vScript)
    /\ Contains(vScript, "class")
    /\ ~Contains(vScript, "Scene")

(***************************************************************************)
(* C5 as stated: a script that imports manim in neither form is rejected   *)
(* with the message naming the missing import, whatever else it contains.  *)
(***************************************************************************)
C5_Original ==
    (Validated_ /\ ~ImportsManim(vScript)) =>
        /\ ~vResult.ok
        /\ vResult.msg = "Script must import manim"

(***************************************************************************)
(* C5 amended: a script that imports manim in neither form is rejected;    *)
(* the message names the missing import when the script holds no denylist  *)
(* substring, and otherwise names the first denylist entry it holds.       *)
(***************************************************************************)
C5_MissingImportMessage ==
    (Validated_ /\ ~ImportsManim(vScript)) =>
        /\ ~vResult.ok
        /\ IF HasDangerous(vScript)
           THEN \E i \in DOMAIN dangerous_imports :
                   /\ Contains(vScript, dangerous_imports[i])
                   /\ \A j \in 1..(i - 1) :
                         ~Contains(vScript, dangerous_imports[j])
                   /\ vResult.msg = "Dangerous function/import detected: "
                                      \o dangerous_imports[i]
           ELSE vResult.msg = "Script must import manim"

\* a script with a Scene class and no import was rejected for the import
C5_Witness ==
    /\ Validated_
    /\ ~ImportsManim(vScript)
    /\ ~HasDangerous(vScript)
    /\ Contains(vScript, "class")
    /\ Contains(vScript, "Scene")
    /\ vResult = [ok |-> FALSE, msg |-> "Script must import manim"]

(***************************************************************************)
(* C6: a POST /render with a non-empty script invokes render_script        *)
(* exactly once; the answer is 200 with the result as its payload when the *)
(* result is a success and 500 with that same payload (success=false,      *)
(* error, request_id, timestamp) when it is a failure.  (A call that       *)
(* raises has no result and is answered at the handler boundary.)          *)
(***************************************************************************)
C6_ResultMapsToStatus ==
    \A r \in Slots :
        (IsRender(r) /\ HasScript(request[r].json)) =>
            /\ rendered[r] = 1
            /\ pc[r] = "done" =>
                  IF Returns(r)
                  THEN /\ response[r].body = result[r].value
                       /\ response[r].status =
                             (IF result[r].value.success THEN 200 ELSE 500)
                       /\ ~result[r].value.success =>
                             /\ FailureFields \subseteq DOMAIN response[r].body
                             /\ response[r].body.request_id = rid[r]
                  ELSE /\ result[r].kind = "raised"
                       /\ response[r] = InternalError(result[r].error)

\* one render answered 200 and another answered 500
C6_Witness ==
    \E r, q \in Slots :
        /\ IsRender(r) /\ response[r].status = 200
        /\ response[r].body.success
        /\ IsRender(q) /\ rendered[q] = 1 /\ response[q].status = 500
        /\ ~response[q].body.success

(***************************************************************************)
(* C7 as stated: every failure response of POST /render and of an          *)
(* unmatched route (400, 404, 500) carries success=false, error,           *)
(* request_id and timestamp.                                               *)
(***************************************************************************)
FailureResponse(r) ==
    /\ request[r].route \in { "render", "unmatched" }
    /\ response[r].status \in { 400, 404, 500 }

C7_Original ==
    \A r \in Slots :
        FailureResponse(r) =>
            /\ FailureFields \subseteq DOMAIN response[r].body
            /\ response[r].body.success = FALSE

(***************************************************************************)
(* C7 amended: every failure response of POST /render and of an unmatched  *)
(* route carries an error field.  The 500 of a render failure carries      *)
(* success=false, error, request_id and timestamp; the 500 of an uncaught  *)
(* handler fault carries success=false, error and timestamp but no         *)
(* request_id; the 400 and the 404 carry the error field alone.            *)
(***************************************************************************)
C7_FailureBodies ==
    \A r \in Slots :
        FailureResponse(r) =>
            /\ "error" \in DOMAIN response[r].body
            /\ (response[r].status = 500 /\ Returns(r)) =>
                  /\ DOMAIN response[r].body = FailureFields
                  /\ response[r].body.success = FALSE
                  /\ response[r].body.request_id = rid[r]
            /\ (response[r].status = 500 /\ ~Returns(r)) =>
                  /\ DOMAIN response[r].body = FailureFields \ { "request_id" }
                  /\ response[r].body.success = FALSE
            /\ response[r].status \in { 400, 404 } =>
                  DOMAIN response[r].body = { "error" }

\* a 400 and a render failure 500 have been sent
C7_Witness ==
    \E r, q \in Slots :
        /\ IsRender(r) /\ response[r].status = 400
        /\ IsRender(q) /\ response[q].status = 500 /\ launched[q] = 1

(***************************************************************************)
(* C8: validation failure, non-zero exit, timeout, missing artifact and    *)
(* upload failure each end render_script with a returned result of the     *)
(* one shape success=false, error, request_id, timestamp; none leaves it   *)
(* as a raised exception.                                                  *)
(***************************************************************************)
C8_FaultsFlattened ==
    \A r \in Slots :
        (pc[r] = "done" /\ IsRender(r)
           /\ (\/ ValidationFault(r) \/ NonzeroFault(r) \/ TimeoutFault(r)
               \/ NoArtifactFault(r) \/ UploadFault(r))) =>
            FlatFailure(r)

\* an upload failure and a missing artifact have both been flattened
C8_Witness ==
    \E r, q \in Slots :
        /\ UploadFault(r) /\ FlatFailure(r)
        /\ NoArtifactFault(q) /\ FlatFailure(q)

(***************************************************************************)
(* C9 as stated: in variant A a failed upload leaves render_script as an   *)
(* exception and POST /render answers with the generic internal-error      *)
(* payload, which carries no request identifier.                           *)
(***************************************************************************)
C9_Original ==
    \A r \in Slots :
        (variant = "A" /\ pc[r] = "done" /\ UploadFault(r)) =>
            /\ result[r].kind = "raised"
            /\ "request_id" \notin DOMAIN response[r].body

(***************************************************************************)
(* C9 amended: in variant A a failed upload is caught in render_script,    *)
(* which returns the structured failure result (success=false, error       *)
(* "Rendering failed: ...", request_id, timestamp), and POST /render       *)
(* answers 500 with that result as its payload.                            *)
(***************************************************************************)
C9_UploadFailureStructured ==
    \A r \in Slots :
        (variant = "A" /\ pc[r] = "done" /\ UploadFault(r)) =>
            /\ Returns(r)
            /\ result[r].value.success = FALSE
            /\ result[r].value.error = "Rendering failed: " \o UPLOADERROR
            /\ response[r].status = 500
            /\ response[r].body = result[r].value
            /\ response[r].body.request_id = rid[r]

\* the object store refused an artifact and the request was answered
C9_Witness ==
    \E r \in Slots :
        /\ variant = "A"
        /\ exitKind[r] = "exit0"
        /\ uploaded[r]
        /\ rid[r] \notin bucket
        /\ response[r].status = 500

(***************************************************************************)
(* C10 as stated: when the rendering tool exceeds the maximum render time, *)
(* render_script returns success=false with the timeout message, attempts  *)
(* neither the artifact lookup nor the upload, and the scratch file is     *)
(* absent afterwards.                                                      *)
(***************************************************************************)
C10_Original ==
    \A r \in Slots :
        TimeoutFault(r) =>
            /\ ~searched[r]
            /\ ~uploaded[r]
            /\ pc[r] = "done" =>
                  /\ Returns(r)
                  /\ result[r].value.success = FALSE
                  /\ result[r].value.error
                        = "Rendering timeout after 3600 seconds"
                  /\ rid[r] \notin tempFiles

(***************************************************************************)
(* C10 amended: when the rendering tool exceeds the maximum render time,   *)
(* render_script returns success=false with the timeout message and        *)
(* attempts neither the artifact lookup nor the upload; the scratch file   *)
(* is absent afterwards unless the unlink of the finally clause raised,    *)
(* which is swallowed and leaves the file.                                 *)
(***************************************************************************)
C10_Timeout ==
    \A r \in Slots :
        TimeoutFault(r) =>
            /\ ~searched[r]
            /\ ~uploaded[r]
            /\ pc[r] = "done" =>
                  /\ Returns(r)
                  /\ result[r].value.success = FALSE
                  /\ result[r].value.error
                        = "Rendering timeout after 3600 seconds"
                  /\ rid[r] \in tempFiles <=> swallowed[r]

\* the tool timed out after depositing a file of the requested format
C10_Witness ==
    \E r \in Slots :
        /\ TimeoutFault(r)
        /\ pc[r] = "done"
        /\ FormatOf(r) \in outFiles[rid[r]]
        /\ rid[r] \notin tempFiles

(***************************************************************************)
(* C11: for any interleaving of render calls with distinct request         *)
(* identifiers, a step of one call creates, writes and deletes no scratch  *)
(* file and creates no output directory and changes no output file but     *)
(* those of its own identifier, no other call has that identifier, and     *)
(* its artifact search reports no video file exactly when its own output   *)
(* directory holds no file of its format.                                  *)
(***************************************************************************)
\* the outcome is the failure of the artifact search
NoVideoFile(outcome) ==
    /\ outcome.kind = "returned"
    /\ ~outcome.value.success
    /\ outcome.value.error
          = "Rendering failed: No video file found after rendering"

C11_Isolation ==
    [][ \A r \in Slots :
          pc'[r] # pc[r] =>
            /\ \A i \in ReqIds :
                  i # rid'[r] =>
                     /\ (i \in tempFiles') = (i \in tempFiles)
                     /\ (i \in outDirs') = (i \in outDirs)
                     /\ outFiles'[i] = outFiles[i]
            /\ \A q \in Slots : (q # r /\ rid'[r] # 0) => rid[q] # rid'[r]
            /\ (searched'[r] /\ ~searched[r]) =>
                  ((NoVideoFile(result'[r]) \/ NoVideoFile(pending'[r]))
                     <=> FormatOf(r) \notin outFiles[rid[r]])
      ]_vars

\* the second call ran from its receipt to its end while the first call was
\* running, and the scratch file of the first call is still there
C11_Witness ==
    /\ pc[1] = "running"
    /\ pc[2] = "done"
    /\ launched[2] = 1
    /\ rid[1] # rid[2]
    /\ rid[1] \in tempFiles
    /\ rid[2] \notin tempFiles
    /\ rid[2] \in outDirs

(***************************************************************************)
(* C12: in variant B, GET /status/<id> answers completed exactly when the  *)
(* output directory of <id> holds a file of the format requested for that  *)
(* render, and not_found otherwise; once a render of <id> has returned a   *)
(* success, status of <id> is completed and GET /download/<id> returns the *)
(* artifact.                                                               *)
(***************************************************************************)
Answers(q, route, id) ==
    /\ pc[q] = "idle"
    /\ pc'[q] = "done"
    /\ request'[q] = [route |-> route, id |-> id]

RenderedOk(id) == \E r \in Slots : rid[r] = id /\ Succeeded(result[r])

C12_StatusMatchesFormat ==
    [][ \A q \in Slots, id \in ReqIds :
          variant = "B" =>
            /\ Answers(q, "status", id) =>
                  /\ response'[q].body.status \in { "completed", "not_found" }
                  /\ response'[q].body.status = "completed"
                        <=> \E r \in Slots :
                               /\ rid[r] = id
                               /\ rendered[r] > 0
                               /\ FormatOf(r) \in outFiles[id]
                  /\ RenderedOk(id) => response'[q].body.status = "completed"
            /\ Answers(q, "download", id) =>
                  (RenderedOk(id) => response'[q].status = 200)
      ]_vars

(***************************************************************************)
(* C13 as stated: in variant A every render_script call sends exactly one  *)
(* measurement to the metrics sink before it returns, with the success     *)
(* flag of the returned result.                                            *)
(***************************************************************************)
C13_Original ==
    \A r \in Slots :
        (variant = "A" /\ result[r].kind # "none") =>
            /\ Returns(r)
            /\ emitted[r] = << result[r].value.success >>

(***************************************************************************)
(* C13 amended: in variant A every render_script call that returns has     *)
(* called _report_metrics once before, with the success flag of the        *)
(* returned result; _report_metrics sends one measurement to the metrics   *)
(* sink when a monitoring client is configured and none when it is not.    *)
(* Whether or not the sink accepts it, render_script returns the outcome   *)
(* it had when it called the sink, and that result is the payload of the   *)
(* response.  A call that raises before its try block reports nothing.     *)
(***************************************************************************)
C13_MetricsPerCall ==
    \A r \in Slots :
        (variant = "A" /\ rendered[r] > 0) =>
            /\ metrics[r] \in { << >>, emitted[r] }
            /\ emitted[r] # << >> => cloudClients
            /\ pc[r] = "reporting" =>
                  /\ emitted[r] = << pending[r].value.success >>
                  /\ metrics[r] = << >>
                  /\ result[r].kind = "none"
            /\ (result[r].kind = "none" /\ pc[r] # "reporting") =>
                  emitted[r] = << >>
            /\ result[r].kind = "raised" => emitted[r] = << >>
            /\ Returns(r) =>
                  /\ emitted[r] = (IF cloudClients
                                   THEN << result[r].value.success >>
                                   ELSE << >>)
                  /\ cloudClients => result[r] = pending[r]
                  /\ response[r].body = result[r].value

\* the sink refused the measurement of a successful render
C13_Witness ==
    \E r \in Slots :
        /\ variant = "A"
        /\ emitted[r] = << TRUE >>
        /\ metrics[r] = << >>
        /\ response[r].status = 200

(***************************************************************************)
(* C14 as stated: the identifier generator is invoked only for requests    *)
(* that pass the body and script checks; none is drawn on the 400 path.    *)
(***************************************************************************)
C14_Original ==
    \A r \in Slots :
        (IsRender(r) /\ pc[r] # "parsing" /\ rid[r] # 0) =>
            HasScript(request[r].json)

(***************************************************************************)
(* C14 amended: every POST /render draws a request identifier before its   *)
(* body is parsed, the 400 path included; on the 400 path the identifier   *)
(* is not used: it is not in the response, render_script is not called     *)
(* with it and no file or directory bears it.                              *)
(***************************************************************************)
C14_IdentifierAlwaysDrawn ==
    /\ uuidCalls = Cardinality({ r \in Slots : IsRender(r) })
    /\ \A r \in Slots :
          IsRender(r) =>
            /\ rid[r] \in 1..uuidCalls
            /\ response[r].status = 400 =>
                  /\ "request_id" \notin DOMAIN response[r].body
                  /\ rendered[r] = 0
                  /\ rid[r] \notin tempFiles
                  /\ rid[r] \notin outDirs

\* a request without a script was answered 400 and had drawn an identifier
C14_Witness ==
    \E r \in Slots :
        /\ IsRender(r)
        /\ request[r].json.kind = "dict"
        /\ "script" \notin DOMAIN request[r].json.value
        /\ response[r].status = 400
        /\ rid[r] # 0

(***************************************************************************)
(* C15: in variant B, GET /status/<id> answers completed only if a render  *)
(* call for <id> has returned a success: never while the call is running,  *)
(* nor for a failed or never submitted render.                             *)
(***************************************************************************)
C15_CompletedOnlyAfterSuccess ==
    \A q \in Slots :
        (/\ variant = "B"
         /\ request[q].route = "status"
         /\ response[q].body.status = "completed") =>
            \E r \in Slots :
                rid[r] = request[q].id /\ Succeeded(result[r])

(***************************************************************************)
(* C16 as stated: in variant A without a storage client, a render whose    *)
(* tool exits 0 with the artifact present performs no upload and returns a *)
(* success whose locator and storage key are both null.                    *)
(***************************************************************************)
C16_Original ==
    \A r \in Slots :
        (/\ variant = "A"
         /\ ~cloudClients
         /\ exitKind[r] = "exit0"
         /\ FormatOf(r) \in outFiles[rid[r]]) =>
            /\ Returns(r)
            /\ result[r].value.success
            /\ result[r].value.gcs_url = 0
            /\ result[r].value.blob_name = 0
            /\ ~uploaded[r]
            /\ bucket = {}
            /\ response[r].status = 200

(***************************************************************************)
(* C16 amended: in variant A without a storage client, a render whose tool *)
(* exits 0 with the artifact present performs no upload; it returns a      *)
(* success whose locator and storage key are both null, unless a later     *)
(* statement of the call raises (the decoding of the output of the tool,   *)
(* the stat of the artifact, the deletion of the scratch file), and then   *)
(* it returns the flattened failure with the text of that fault.           *)
(***************************************************************************)
C16_NoClientStillSucceeds ==
    \A r \in Slots :
        (/\ variant = "A"
         /\ ~cloudClients
         /\ exitKind[r] = "exit0"
         /\ FormatOf(r) \in outFiles[rid[r]]) =>
            /\ ~uploaded[r]
            /\ bucket = {}
            /\ Returns(r)
            /\ response[r].body = result[r].value
            /\ IF result[r].value.success
               THEN /\ result[r].value.gcs_url = 0
                    /\ result[r].value.blob_name = 0
                    /\ response[r].status = 200
               ELSE /\ FlatFailure(r)
                    /\ result[r].value.error \in
                          { "Rendering failed: " \o e :
                              e \in { DECODEERROR, STATERROR, UNLINKERROR } }
                    /\ response[r].status = 500

\* such a render has been answered
C16_Witness ==
    \E r \in Slots :
        /\ variant = "A"
        /\ ~cloudClients
        /\ exitKind[r] = "exit0"
        /\ searched[r]
        /\ response[r].status = 200
        /\ response[r].body.gcs_url = 0

====
